---- MODULE Spec2Model ----
(***************************************************************************)
(* The human-technique difficulty engine of the Sudoku repository:         *)
(*   src/solving_techniques.py  SudokuTechniques (candidate map, the seven *)
(*                              detectors and the five appliers)           *)
(*   src/difficulty_engine.py   DifficultyEngine.rate_puzzle (the loop)    *)
(* A grid is grid[row][col] with rows and columns 0..8 and 0 = empty, as   *)
(* in the source.  A candidate map is a function whose domain is the set   *)
(* of keys (row, col) of the dict and whose values are sets of digits.     *)
(* A Python list is a sequence, in the order the source builds it.         *)
(***************************************************************************)
EXTENDS Integers, Sequences, FiniteSets, TLC

VARIABLES
    puzzle,          \* index of the input grid the caller rates
    heap,            \* object reference -> grid (the boards alive in the call)
    board,           \* reference of the board passed to rate_puzzle, 0 outside a call
    working_board,   \* reference of rate_puzzle's working_board, 0 outside a call
    candidates,      \* tech.candidates as the last iteration left it
    techniques_used, \* rate_puzzle's list of tags
    max_score,       \* rate_puzzle's running maximum
    iteration,       \* rate_puzzle's loop counter
    applied,         \* the loop's flag of the last iteration
    pc,              \* "idle", "while", "classify": the caller, line 51, line 128;
                     \* for a caller of SudokuTechniques, the method last called
    results,         \* the triples returned so far, one per call
    set_order        \* iteration order of a set of int tuples in this build

vars == <<puzzle, heap, board, working_board, candidates,
          techniques_used, max_score, iteration, applied, pc, results,
          set_order>>

(***************************************************************************)
(* Sequences standing for Python's range() loops and list building.        *)
(***************************************************************************)
\* range(9)
Range9 == [i \in 1..9 |-> i - 1]

\* range(1, 10)
Nums == [i \in 1..9 |-> i]

\* for row in range(9): for col in range(9)
Cells == [i \in 1..81 |-> <<(i - 1) \div 9, (i - 1) % 9>>]

\* the function f as a table of its values: TLC evaluates [x \in S |-> e]
\* anew at every application f[x], and the table only once
Table(f) == f @@ <<>>

\* the cells of row, of col and of box box_idx in the order the loops over
\* range(9), or over range(box_row, box_row + 3) and range(box_col,
\* box_col + 3), visit them
RowCellsTable == Table([row \in 0..8 |-> Table([i \in 1..9 |-> <<row, i - 1>>])])

ColCellsTable == Table([col \in 0..8 |-> Table([i \in 1..9 |-> <<i - 1, col>>])])

BoxCellsTable ==
    Table([box_idx \in 0..8 |->
        LET box_row == (box_idx \div 3) * 3
            box_col == (box_idx % 3) * 3
        IN  Table([i \in 1..9 |->
                <<box_row + ((i - 1) \div 3), box_col + ((i - 1) % 3)>>])])

RowCells(row) == RowCellsTable[row]

ColCells(col) == ColCellsTable[col]

BoxCells(box_idx) == BoxCellsTable[box_idx]

UnitCells(unit_type, unit_idx) ==
    IF unit_type = "row" THEN RowCells(unit_idx)
    ELSE IF unit_type = "col" THEN ColCells(unit_idx)
    ELSE BoxCells(unit_idx)

Range(s) == {s[i] : i \in 1..Len(s)}

\* results.extend(...) over a loop: the concatenation of a list of lists
RECURSIVE Flatten(_)
Flatten(lists) ==
    IF lists = <<>> THEN <<>> ELSE Head(lists) \o Flatten(Tail(lists))

\* tuple(sorted(s)) of a set of integers
RECURSIVE Sorted(_)
Sorted(s) ==
    IF s = {} THEN <<>>
    ELSE LET m == CHOOSE x \in s : \A y \in s : x <= y
         IN  <<m>> \o Sorted(s \ {m})

(***************************************************************************)
(* SudokuTechniques: the candidate map.                                    *)
(***************************************************************************)
\* the bug of a box loop left out: rows and columns only
_get_candidatesNoBox(grid, row, col) ==
    IF grid[row][col] # 0 THEN {}
    ELSE (1..9) \ ({grid[row][c] : c \in 0..8}
                   \cup {grid[r][col] : r \in 0..8})

_get_candidates(grid, row, col) ==
    IF grid[row][col] # 0 THEN {}
    ELSE LET box_row == (row \div 3) * 3
             box_col == (col \div 3) * 3
         IN  (1..9) \ ({grid[row][c] : c \in 0..8}
                       \cup {grid[r][col] : r \in 0..8}
                       \cup {grid[r][c] : r \in box_row..(box_row + 2),
                                          c \in box_col..(box_col + 2)})

_init_candidates(grid) ==
    LET keys == {p \in (0..8) \X (0..8) : grid[p[1]][p[2]] = 0}
    IN  Table([p \in keys |-> _get_candidates(grid, p[1], p[2])])

\* (row, col) in self.candidates and num in self.candidates[(row, col)]
HasCand(cand, row, col, num) ==
    <<row, col>> \in DOMAIN cand /\ num \in cand[<<row, col>>]

\* the cells of a loop that pass its "(row, col) in self.candidates" test
KeysIn(cand, cells) == SelectSeq(cells, LAMBDA p : p \in DOMAIN cand)

\* self.candidates.items(): the keys in insertion order, which is row-major
Items(cand) == KeysIn(cand, Cells)

\* of the keys of a loop, those that pass "num in self.candidates[key]"
WithNum(cand, keys, num) == SelectSeq(keys, LAMBDA p : num \in cand[p])

(***************************************************************************)
(* Naked and hidden singles.                                               *)
(***************************************************************************)
\* the bug of a return inside the loop: the first finding only
find_naked_singlesFirst(cand) ==
    LET one == SelectSeq(Items(cand), LAMBDA p : Cardinality(cand[p]) = 1)
    IN  [i \in 1..(IF one = <<>> THEN 0 ELSE 1) |->
            <<one[i][1], one[i][2], CHOOSE num \in cand[one[i]] : TRUE>>]

find_naked_singles(cand) ==
    LET one == SelectSeq(Items(cand), LAMBDA p : Cardinality(cand[p]) = 1)
    IN  [i \in 1..Len(one) |->
            <<one[i][1], one[i][2], CHOOSE num \in cand[one[i]] : TRUE>>]

\* the values of the grid at the cells of a unit
UnitValues(grid, unit) == {grid[unit[i][1]][unit[i][2]] : i \in 1..9}

\* the shared body of _find_hidden_in_row/_col/_box over one unit's cells
HiddenInUnit(grid, cand, unit) ==
    LET placed == UnitValues(grid, unit)
        keys == KeysIn(cand, unit)
        hit == SelectSeq(Nums, LAMBDA num :
                   num \notin placed /\ Len(WithNum(cand, keys, num)) = 1)
    IN  [i \in 1..Len(hit) |->
            LET possible_positions == WithNum(cand, keys, hit[i])
            IN  <<possible_positions[1][1], possible_positions[1][2], hit[i]>>]

_find_hidden_in_row(grid, cand, row) == HiddenInUnit(grid, cand, RowCells(row))

_find_hidden_in_col(grid, cand, col) == HiddenInUnit(grid, cand, ColCells(col))

_find_hidden_in_box(grid, cand, box_idx) ==
    HiddenInUnit(grid, cand, BoxCells(box_idx))

\* (row, col, num) triples compared lexicographically
TripleLess(a, b) ==
    \/ a[1] < b[1]
    \/ a[1] = b[1] /\ a[2] < b[2]
    \/ a[1] = b[1] /\ a[2] = b[2] /\ a[3] < b[3]

\* list(set(results)): the order in which a set of int tuples is iterated is
\* fixed by the interpreter build (the hashes of ints and of tuples of ints
\* are not randomised), not by the call; order names that build's order
RECURSIVE ListOfSet(_, _)
ListOfSet(s, order) ==
    IF s = {} THEN <<>>
    ELSE LET first == IF order = "ascending"
                      THEN CHOOSE x \in s : \A y \in s \ {x} : TripleLess(x, y)
                      ELSE CHOOSE x \in s : \A y \in s \ {x} : TripleLess(y, x)
         IN  <<first>> \o ListOfSet(s \ {first}, order)

\* the bug of a return without the set: return results
find_hidden_singlesKept(grid, cand, order) ==
    Flatten([i \in 1..9 |-> _find_hidden_in_row(grid, cand, i - 1)])
    \o Flatten([i \in 1..9 |-> _find_hidden_in_col(grid, cand, i - 1)])
    \o Flatten([i \in 1..9 |-> _find_hidden_in_box(grid, cand, i - 1)])

find_hidden_singles(grid, cand, order) ==
    LET results_list ==
            Flatten([i \in 1..9 |-> _find_hidden_in_row(grid, cand, i - 1)])
            \o Flatten([i \in 1..9 |-> _find_hidden_in_col(grid, cand, i - 1)])
            \o Flatten([i \in 1..9 |-> _find_hidden_in_box(grid, cand, i - 1)])
    IN  ListOfSet(Range(results_list), order)

(***************************************************************************)
(* Eliminations.  Every applier walks a fixed list of (row, col, num),     *)
(* each a key of the dict, and runs                                        *)
(*     if num in self.candidates[(row, col)]: discard; eliminated += 1     *)
(* on each; the result is the pair <<candidates, eliminated>>.             *)
(***************************************************************************)
RECURSIVE Eliminate(_, _, _, _)
Eliminate(cand, eliminated, targets, i) ==
    IF i > Len(targets) THEN <<cand, eliminated>>
    ELSE LET t == targets[i]
         IN  IF t[3] \in cand[<<t[1], t[2]>>]
             THEN Eliminate([cand EXCEPT ![<<t[1], t[2]>>] = @ \ {t[3]}],
                            eliminated + 1, targets, i + 1)
             ELSE Eliminate(cand, eliminated, targets, i + 1)

\* for cell in cells: for num in nums: (cell, num)
CellsTimesNums(cells, nums) ==
    [k \in 1..(Len(cells) * Len(nums)) |->
        <<cells[((k - 1) \div Len(nums)) + 1][1],
          cells[((k - 1) \div Len(nums)) + 1][2],
          nums[((k - 1) % Len(nums)) + 1]>>]

(***************************************************************************)
(* Naked pairs.                                                            *)
(***************************************************************************)
\* the shared body of _find_pairs_in_row/_col/_box
PairsInUnit(cand, unit_type, unit_idx) ==
    LET bi_value_cells ==
            SelectSeq(UnitCells(unit_type, unit_idx),
                      LAMBDA p : p \in DOMAIN cand /\ Cardinality(cand[p]) = 2)
        n == Len(bi_value_cells)
    IN  Flatten([i \in 1..n |->
            LET cell1 == bi_value_cells[i]
                same == SelectSeq(SubSeq(bi_value_cells, i + 1, n),
                                  LAMBDA cell2 : cand[cell1] = cand[cell2])
            IN  [j \in 1..Len(same) |->
                    <<"naked_pair", unit_type, unit_idx, <<cell1, same[j]>>,
                      Sorted(cand[cell1])>>]])

_find_pairs_in_row(cand, row) == PairsInUnit(cand, "row", row)

_find_pairs_in_col(cand, col) == PairsInUnit(cand, "col", col)

_find_pairs_in_box(cand, box_idx) == PairsInUnit(cand, "box", box_idx)

find_naked_pairs(cand) ==
    Flatten([i \in 1..9 |-> _find_pairs_in_row(cand, i - 1)])
    \o Flatten([i \in 1..9 |-> _find_pairs_in_col(cand, i - 1)])
    \o Flatten([i \in 1..9 |-> _find_pairs_in_box(cand, i - 1)])

\* the bug of a loop without "not in cells": the pair's own cells too
NakedPairTargetsAll(cand, pair_info) ==
    CellsTimesNums(KeysIn(cand, UnitCells(pair_info[2], pair_info[3])),
                   pair_info[5])

\* the (row, col, num) one pair_info makes apply_naked_pairs visit
NakedPairTargets(cand, pair_info) ==
    LET cells == pair_info[4]
        others == SelectSeq(UnitCells(pair_info[2], pair_info[3]),
                            LAMBDA p : p \in DOMAIN cand /\ p \notin Range(cells))
    IN  CellsTimesNums(others, pair_info[5])

\* the bug of "eliminated += 1" outside the test of the digit: every
\* (cell, digit) visited is counted
apply_naked_pairsVisited(cand, pairs) ==
    LET targets ==
            Flatten([i \in 1..Len(pairs) |-> NakedPairTargets(cand, pairs[i])])
    IN  <<Eliminate(cand, 0, targets, 1)[1], Len(targets)>>

apply_naked_pairs(cand, pairs) ==
    Eliminate(cand, 0,
              Flatten([i \in 1..Len(pairs) |-> NakedPairTargets(cand, pairs[i])]), 1)

(***************************************************************************)
(* Pointing pairs.                                                         *)
(***************************************************************************)
\* lines 362-381 for one box: the findings of its digits 1..9
PointingInBox(cand, box_idx) ==
    LET keys == KeysIn(cand, BoxCells(box_idx))
        OneRow(ps) == Cardinality({ps[i][1] : i \in 1..Len(ps)}) = 1
        OneCol(ps) == Cardinality({ps[i][2] : i \in 1..Len(ps)}) = 1
        hit == SelectSeq(Nums, LAMBDA num :
                   LET positions == WithNum(cand, keys, num)
                   IN  /\ Len(positions) >= 2
                       /\ (OneRow(positions) \/ OneCol(positions)))
    IN  [k \in 1..Len(hit) |->
            LET positions == WithNum(cand, keys, hit[k])
            IN  IF OneRow(positions)
                THEN <<"pointing_pair", box_idx, hit[k], "row",
                       positions[1][1], positions>>
                ELSE <<"pointing_pair", box_idx, hit[k], "col",
                       positions[1][2], positions>>]

find_pointing_pairs(cand) ==
    Flatten([i \in 1..9 |-> PointingInBox(cand, i - 1)])

\* the bug of a loop without the test of the box: the whole line
PointingTargetsWholeLine(cand, pointing_info) ==
    CellsTimesNums(KeysIn(cand, IF pointing_info[4] = "row"
                                THEN RowCells(pointing_info[5])
                                ELSE ColCells(pointing_info[5])),
                   <<pointing_info[3]>>)

\* the (row, col, num) one pointing_info makes apply_pointing_pairs visit
PointingTargets(cand, pointing_info) ==
    LET box_row == (pointing_info[2] \div 3) * 3
        box_col == (pointing_info[2] % 3) * 3
        line == IF pointing_info[4] = "row" THEN RowCells(pointing_info[5])
                ELSE ColCells(pointing_info[5])
        outside == SelectSeq(line, LAMBDA p :
                       /\ ~(/\ box_row <= p[1] /\ p[1] < box_row + 3
                            /\ box_col <= p[2] /\ p[2] < box_col + 3)
                       /\ p \in DOMAIN cand)
    IN  CellsTimesNums(outside, <<pointing_info[3]>>)

apply_pointing_pairs(cand, pointings) ==
    Eliminate(cand, 0,
              Flatten([i \in 1..Len(pointings) |->
                          PointingTargets(cand, pointings[i])]), 1)

(***************************************************************************)
(* X-Wing and Swordfish.                                                   *)
(***************************************************************************)
\* the keys of each row (pattern "rows") or of each column (pattern "cols")
LineKeys(cand, pattern_type) ==
    Table([line \in 0..8 |->
        KeysIn(cand, IF pattern_type = "rows" THEN RowCells(line)
                     ELSE ColCells(line))])

\* positions: the columns of a row (pattern "rows") or the rows of a column
\* (pattern "cols") where num is a candidate, in range(9) order
LinePositions(cand, pattern_type, keys, num) ==
    LET at == WithNum(cand, keys, num)
    IN  [i \in 1..Len(at) |->
            IF pattern_type = "rows" THEN at[i][2] ELSE at[i][1]]

\* the shared body of _find_x_wing_in_rows/_cols; line_keys is LineKeys
XWingInLines(cand, pattern_type, line_keys, num) ==
    LET positions == Table([line \in 0..8 |->
                         LinePositions(cand, pattern_type, line_keys[line], num)])
        lines == SelectSeq(Range9, LAMBDA l : Len(positions[l]) = 2)
        n == Len(lines)
    IN  Flatten([i \in 1..n |->
            LET same == SelectSeq(SubSeq(lines, i + 1, n), LAMBDA line2 :
                            positions[lines[i]] = positions[line2])
            IN  [j \in 1..Len(same) |->
                    <<"x_wing", pattern_type, <<lines[i], same[j]>>,
                      positions[lines[i]], num>>]])

_find_x_wing_in_rows(cand, line_keys, num) ==
    XWingInLines(cand, "rows", line_keys, num)

_find_x_wing_in_cols(cand, line_keys, num) ==
    XWingInLines(cand, "cols", line_keys, num)

find_x_wing(cand) ==
    LET row_keys == LineKeys(cand, "rows")
        col_keys == LineKeys(cand, "cols")
    IN  Flatten([num \in 1..9 |-> _find_x_wing_in_rows(cand, row_keys, num)])
        \o Flatten([num \in 1..9 |-> _find_x_wing_in_cols(cand, col_keys, num)])

\* the bug of a loop without the test of the two lines: the corners too
XWingTargetsCorners(cand, x_wing_info) ==
    LET cross_lines == x_wing_info[4]
        visited == [k \in 1..18 |->
                       IF x_wing_info[2] = "rows"
                       THEN <<Range9[(k + 1) \div 2], cross_lines[((k - 1) % 2) + 1]>>
                       ELSE <<cross_lines[((k - 1) % 2) + 1], Range9[(k + 1) \div 2]>>]
    IN  CellsTimesNums(KeysIn(cand, visited), <<x_wing_info[5]>>)

\* the (row, col, num) one x_wing_info makes apply_x_wing visit
XWingTargets(cand, x_wing_info) ==
    LET lines == x_wing_info[3]
        cross_lines == x_wing_info[4]
        other == SelectSeq(Range9, LAMBDA l : l # lines[1] /\ l # lines[2])
        visited == [k \in 1..(2 * Len(other)) |->
                       IF x_wing_info[2] = "rows"
                       THEN <<other[(k + 1) \div 2], cross_lines[((k - 1) % 2) + 1]>>
                       ELSE <<cross_lines[((k - 1) % 2) + 1], other[(k + 1) \div 2]>>]
    IN  CellsTimesNums(KeysIn(cand, visited), <<x_wing_info[5]>>)

apply_x_wing(cand, x_wings) ==
    Eliminate(cand, 0,
              Flatten([i \in 1..Len(x_wings) |-> XWingTargets(cand, x_wings[i])]), 1)

\* the shared body of _find_swordfish_in_rows/_cols; line_keys is LineKeys
SwordfishInLines(cand, pattern_type, line_keys, num) ==
    LET positions == Table([line \in 0..8 |->
                         Range(LinePositions(cand, pattern_type, line_keys[line], num))])
        lines == SelectSeq(Range9, LAMBDA l :
                     /\ 2 <= Cardinality(positions[l])
                     /\ Cardinality(positions[l]) <= 3)
        n == Len(lines)
    IN  Flatten([i \in 1..n |-> Flatten([j \in 1..(n - i) |->
            LET two == positions[lines[i]] \cup positions[lines[i + j]]
                third == SelectSeq(SubSeq(lines, i + j + 1, n), LAMBDA line3 :
                             Cardinality(two \cup positions[line3]) = 3)
            IN  [k \in 1..Len(third) |->
                    <<"swordfish", pattern_type,
                      <<lines[i], lines[i + j], third[k]>>,
                      Sorted(two \cup positions[third[k]]), num>>]])])

_find_swordfish_in_rows(cand, line_keys, num) ==
    SwordfishInLines(cand, "rows", line_keys, num)

_find_swordfish_in_cols(cand, line_keys, num) ==
    SwordfishInLines(cand, "cols", line_keys, num)

find_swordfish(cand) ==
    LET row_keys == LineKeys(cand, "rows")
        col_keys == LineKeys(cand, "cols")
    IN  Flatten([num \in 1..9 |-> _find_swordfish_in_rows(cand, row_keys, num)])
        \o Flatten([num \in 1..9 |-> _find_swordfish_in_cols(cand, col_keys, num)])

\* the bug of a loop without the test of the three lines: every line
SwordfishTargetsEveryLine(cand, pattern) ==
    LET cross_lines == pattern[4]
        visited == [k \in 1..27 |->
                       IF pattern[2] = "rows"
                       THEN <<Range9[((k - 1) % 9) + 1],
                              cross_lines[((k - 1) \div 9) + 1]>>
                       ELSE <<cross_lines[((k - 1) \div 9) + 1],
                              Range9[((k - 1) % 9) + 1]>>]
    IN  CellsTimesNums(KeysIn(cand, visited), <<pattern[5]>>)

\* the (row, col, num) one pattern makes apply_swordfish visit
SwordfishTargets(cand, pattern) ==
    LET lines == pattern[3]
        cross_lines == pattern[4]
        other == SelectSeq(Range9, LAMBDA l : l \notin Range(lines))
        visited == [k \in 1..(3 * Len(other)) |->
                       IF pattern[2] = "rows"
                       THEN <<other[((k - 1) % Len(other)) + 1],
                              cross_lines[((k - 1) \div Len(other)) + 1]>>
                       ELSE <<cross_lines[((k - 1) \div Len(other)) + 1],
                              other[((k - 1) % Len(other)) + 1]>>]
    IN  CellsTimesNums(KeysIn(cand, visited), <<pattern[5]>>)

apply_swordfish(cand, swordfish_patterns) ==
    Eliminate(cand, 0,
              Flatten([i \in 1..Len(swordfish_patterns) |->
                          SwordfishTargets(cand, swordfish_patterns[i])]), 1)

(***************************************************************************)
(* XY-Wing.                                                                *)
(***************************************************************************)
\* the bug of a test without the box: rows and columns only
_can_seeLines(r1, c1, r2, c2) ==
    IF r1 = r2 THEN TRUE
    ELSE IF c1 = c2 THEN TRUE
    ELSE FALSE

_can_see(r1, c1, r2, c2) ==
    IF r1 = r2 THEN TRUE
    ELSE IF c1 = c2 THEN TRUE
    ELSE IF (r1 \div 3) = (r2 \div 3) /\ (c1 \div 3) = (c2 \div 3) THEN TRUE
    ELSE FALSE

\* lines 766-799 for one pivot out of bi_value_cells
XYWingsOfPivot(cand, bi_value_cells, pivot) ==
    LET pivot_cands == Sorted(cand[pivot])
        X == pivot_cands[1]
        Y == pivot_cands[2]
        seen == SelectSeq(bi_value_cells, LAMBDA p :
                    p # pivot /\ _can_see(pivot[1], pivot[2], p[1], p[2]))
        wing1s == SelectSeq(seen, LAMBDA p : X \in cand[p])
    IN  Flatten([a \in 1..Len(wing1s) |->
            LET wing1 == wing1s[a]
                Z == CHOOSE c \in cand[wing1] : c # X
                wing2s == SelectSeq(seen, LAMBDA p :
                              p # wing1 /\ cand[p] = {Y, Z})
            IN  [b \in 1..Len(wing2s) |->
                    <<"xy_wing", pivot, wing1, wing2s[b], Z>>]])

find_xy_wing(cand) ==
    LET bi_value_cells ==
            SelectSeq(Items(cand), LAMBDA p : Cardinality(cand[p]) = 2)
    IN  Flatten([i \in 1..Len(bi_value_cells) |->
                    XYWingsOfPivot(cand, bi_value_cells, bi_value_cells[i])])

\* the bug of a test of one wing only: the cells that see wing1
XYWingTargetsOneWing(keys, pattern) ==
    LET wing1 == pattern[3]
        wing2 == pattern[4]
        both == SelectSeq(keys, LAMBDA p :
                    /\ p \notin {pattern[2], wing1, wing2}
                    /\ _can_see(p[1], p[2], wing1[1], wing1[2]))
    IN  CellsTimesNums(both, <<pattern[5]>>)

\* the (row, col, num) one pattern makes apply_xy_wing visit; keys is the
\* list of the cells that pass "(row, col) not in self.candidates"
XYWingTargets(keys, pattern) ==
    LET wing1 == pattern[3]
        wing2 == pattern[4]
        both == SelectSeq(keys, LAMBDA p :
                    /\ p \notin {pattern[2], wing1, wing2}
                    /\ _can_see(p[1], p[2], wing1[1], wing1[2])
                    /\ _can_see(p[1], p[2], wing2[1], wing2[2]))
    IN  CellsTimesNums(both, <<pattern[5]>>)

apply_xy_wing(cand, xy_wing_patterns) ==
    LET keys == Items(cand)
    IN  Eliminate(cand, 0,
                  Flatten([i \in 1..Len(xy_wing_patterns) |->
                              XYWingTargets(keys, xy_wing_patterns[i])]), 1)

(***************************************************************************)
(* DifficultyEngine.                                                       *)
(***************************************************************************)
TECHNIQUE_SCORES ==
    [naked_single |-> 15, hidden_single |-> 15, naked_pair |-> 65,
     hidden_pair |-> 70, pointing_pair |-> 80, x_wing |-> 120,
     swordfish |-> 160, xy_wing |-> 180]

max_iterations == 1000

\* the bug of min() written for max()
MaxAsMin(a, b) == IF a <= b THEN a ELSE b

\* Python's max of two integers
Max(a, b) == IF a >= b THEN a ELSE b

\* the bug of a loop that returns in its first round: only row 0 is read
_is_solvedFirstRow(grid) == ~(\E col \in 0..8 : grid[0][col] = 0)

_is_solved(grid) == ~(\E row \in 0..8 : \E col \in 0..8 : grid[row][col] = 0)

\* the bug of a copy that is the object itself: working_board = board
deepcopyAlias(h, ref) == <<h, ref>>

\* copy.deepcopy(board): a new object with the same cells
deepcopy(h, ref) ==
    LET new == Cardinality(DOMAIN h) + 1
    IN  <<h @@ (new :> h[ref]), new>>

\* for row, col, num in findings: working_board.grid[row][col] = num
RECURSIVE AssignAll(_, _, _)
AssignAll(grid, findings, i) ==
    IF i > Len(findings) THEN grid
    ELSE AssignAll([grid EXCEPT ![findings[i][1]][findings[i][2]] = findings[i][3]],
                   findings, i + 1)

\* the bug of a loop without the cap: while not self._is_solved(...)
LoopConditionNoCap(grid, count) == ~_is_solved(grid)

\* line 51: the condition of the while loop
LoopCondition(grid, count) == ~_is_solved(grid) /\ count < max_iterations

\* the second argument of max() at lines 61, 70, 79, 88, 97, 106, 115, 123
Score(tag) ==
    IF tag = "requires_expert_technique" THEN 200 ELSE TECHNIQUE_SCORES[tag]

\* the "continue" of lines 63, 72, 81, 90, 99, 108, 117 and the "break" of
\* line 125: where the pass that appended tag goes on
AfterPassNoBreak(tag) == "while"

AfterPass(tag) ==
    IF tag # "requires_expert_technique" THEN "while" ELSE "classify"

\* the bug of thresholds compared with < for <=
DifficultyStrict(score) ==
    IF score < 15 THEN "Easy"
    ELSE IF score < 90 THEN "Medium"
    ELSE "Hard"

\* the difficulty of lines 128-133
Difficulty(score) ==
    IF score <= 15 THEN "Easy"
    ELSE IF score <= 90 THEN "Medium"
    ELSE "Hard"

\* One pass of the loop body from a technique on: the tag the pass appends,
\* the grid of working_board and tech.candidates at the end of the pass.
\* Each definition is one "if ... continue" block and falls through to the
\* next; they are written last block first.

\* lines 120-125
RequiresExpert(grid, cand) ==
    [tag |-> "requires_expert_technique", grid |-> grid, cand |-> cand]

\* lines 111-117
TryXYWing(grid, cand) ==
    LET xy_wing == find_xy_wing(cand)
        done == apply_xy_wing(cand, xy_wing)
    IN  IF xy_wing = <<>> THEN RequiresExpert(grid, cand)
        ELSE IF done[2] > 0
        THEN [tag |-> "xy_wing", grid |-> grid, cand |-> done[1]]
        ELSE RequiresExpert(grid, done[1])

\* lines 102-108
TrySwordfish(grid, cand) ==
    LET swordfish == find_swordfish(cand)
        done == apply_swordfish(cand, swordfish)
    IN  IF swordfish = <<>> THEN TryXYWing(grid, cand)
        ELSE IF done[2] > 0
        THEN [tag |-> "swordfish", grid |-> grid, cand |-> done[1]]
        ELSE TryXYWing(grid, done[1])

\* lines 93-99
TryXWing(grid, cand) ==
    LET x_wing == find_x_wing(cand)
        done == apply_x_wing(cand, x_wing)
    IN  IF x_wing = <<>> THEN TrySwordfish(grid, cand)
        ELSE IF done[2] > 0
        THEN [tag |-> "x_wing", grid |-> grid, cand |-> done[1]]
        ELSE TrySwordfish(grid, done[1])

\* lines 84-90
TryPointingPairs(grid, cand) ==
    LET pointing == find_pointing_pairs(cand)
        done == apply_pointing_pairs(cand, pointing)
    IN  IF pointing = <<>> THEN TryXWing(grid, cand)
        ELSE IF done[2] > 0
        THEN [tag |-> "pointing_pair", grid |-> grid, cand |-> done[1]]
        ELSE TryXWing(grid, done[1])

\* lines 75-81
TryNakedPairs(grid, cand) ==
    LET pairs == find_naked_pairs(cand)
        done == apply_naked_pairs(cand, pairs)
    IN  IF pairs = <<>> THEN TryPointingPairs(grid, cand)
        ELSE IF done[2] > 0
        THEN [tag |-> "naked_pair", grid |-> grid, cand |-> done[1]]
        ELSE TryPointingPairs(grid, done[1])

\* lines 66-72
TryHiddenSingles(grid, cand, order) ==
    LET hidden == find_hidden_singles(grid, cand, order)
    IN  IF hidden # <<>>
        THEN [tag |-> "hidden_single", grid |-> AssignAll(grid, hidden, 1),
              cand |-> cand]
        ELSE TryNakedPairs(grid, cand)

\* the bug of the first two blocks in the other order
TryHiddenSinglesFirst(grid, cand, order) ==
    LET hidden == find_hidden_singles(grid, cand, order)
        singles == find_naked_singles(cand)
    IN  IF hidden # <<>>
        THEN [tag |-> "hidden_single", grid |-> AssignAll(grid, hidden, 1),
              cand |-> cand]
        ELSE IF singles # <<>>
        THEN [tag |-> "naked_single", grid |-> AssignAll(grid, singles, 1),
              cand |-> cand]
        ELSE TryNakedPairs(grid, cand)

\* lines 57-63
TryNakedSingles(grid, cand, order) ==
    LET singles == find_naked_singles(cand)
    IN  IF singles # <<>>
        THEN [tag |-> "naked_single", grid |-> AssignAll(grid, singles, 1),
              cand |-> cand]
        ELSE TryHiddenSingles(grid, cand, order)

\* update_candidates for every cell assigned since cand was built: the keys
\* of the cells filled in grid are deleted and the digits now placed in a
\* cell's row, column and box are discarded from its set
Retained(cand, grid) ==
    LET keys == {p \in DOMAIN cand : grid[p[1]][p[2]] = 0}
    IN  Table([p \in keys |-> cand[p] \cap _get_candidates(grid, p[1], p[2])])

\* the bug of a tech object built once and kept over the iterations, its
\* candidates updated after every assignment
LoopPassRetaining(grid, order) ==
    TryNakedSingles(grid,
                    IF iteration = 0 THEN _init_candidates(grid)
                    ELSE Retained(candidates, grid),
                    order)

\* lines 53-125: tech = SudokuTechniques(working_board) and the blocks
LoopPass(grid, order) == TryNakedSingles(grid, _init_candidates(grid), order)

(***************************************************************************)
(* The input grids.  Those made by WithBlanks are the solved grid of the   *)
(* tests with a set of cells emptied, so their filled cells repeat no      *)
(* digit in a row, column or box and they have a solution; Conflicting,    *)
(* Repeating, OutOfRange and Doubled change one cell more.                 *)
(***************************************************************************)
Solution ==
    << <<5, 3, 4, 6, 7, 8, 9, 1, 2>>,
       <<6, 7, 2, 1, 9, 5, 3, 4, 8>>,
       <<1, 9, 8, 3, 4, 2, 5, 6, 7>>,
       <<8, 5, 9, 7, 6, 1, 4, 2, 3>>,
       <<4, 2, 6, 8, 5, 3, 7, 9, 1>>,
       <<7, 1, 3, 9, 2, 4, 8, 5, 6>>,
       <<9, 6, 1, 5, 3, 7, 2, 8, 4>>,
       <<2, 8, 7, 4, 1, 9, 6, 3, 5>>,
       <<3, 4, 5, 2, 8, 6, 1, 7, 9>> >>

\* SudokuBoard(grid) of the nested list with the cells of blanks set to 0
WithBlanks(blanks) ==
    [row \in 0..8 |-> [col \in 0..8 |->
        IF <<row, col>> \in blanks THEN 0 ELSE Solution[row + 1][col + 1]]]

\* easy_puzzle of test_easy_puzzle_rating
BlanksEasy ==
    {<<6, 8>>, <<7, 7>>, <<8, 6>>}

\* standard_puzzle of test_standard_puzzle_rating, which is also the puzzle
\* of test_engine_consistency
BlanksStandard ==
    {<<0, 2>>, <<0, 3>>, <<0, 5>>, <<0, 6>>, <<0, 7>>, <<0, 8>>, <<1, 1>>,
     <<1, 2>>, <<1, 6>>, <<1, 7>>, <<1, 8>>, <<2, 0>>, <<2, 3>>, <<2, 4>>,
     <<2, 5>>, <<2, 6>>, <<2, 8>>, <<3, 1>>, <<3, 2>>, <<3, 3>>, <<3, 5>>,
     <<3, 6>>, <<3, 7>>, <<4, 1>>, <<4, 2>>, <<4, 4>>, <<4, 6>>, <<4, 7>>,
     <<5, 1>>, <<5, 2>>, <<5, 3>>, <<5, 5>>, <<5, 6>>, <<5, 7>>, <<6, 0>>,
     <<6, 2>>, <<6, 3>>, <<6, 4>>, <<6, 5>>, <<6, 8>>, <<7, 0>>, <<7, 1>>,
     <<7, 2>>, <<7, 6>>, <<7, 7>>, <<8, 0>>, <<8, 1>>, <<8, 2>>, <<8, 3>>,
     <<8, 5>>, <<8, 6>>}

\* a puzzle with one solution that naked and hidden singles fill
BlanksHidden ==
    {<<0, 1>>, <<0, 2>>, <<0, 3>>, <<0, 5>>, <<1, 0>>, <<1, 5>>, <<1, 7>>,
     <<1, 8>>, <<2, 3>>, <<2, 4>>, <<2, 6>>, <<2, 7>>, <<3, 0>>, <<3, 6>>,
     <<3, 8>>, <<4, 0>>, <<4, 4>>, <<4, 5>>, <<5, 2>>, <<5, 5>>, <<5, 6>>,
     <<6, 1>>, <<6, 3>>, <<6, 4>>, <<7, 6>>, <<7, 7>>, <<7, 8>>, <<8, 0>>,
     <<8, 5>>}

\* puzzles with one solution on which, after the singles, the first
\* technique with an effect is a naked pair, a pointing pair, an X-Wing, a
\* Swordfish and an XY-Wing
BlanksNakedPair ==
    {<<0, 2>>, <<0, 4>>, <<0, 5>>, <<0, 7>>, <<1, 0>>, <<1, 7>>, <<2, 0>>,
     <<2, 7>>, <<3, 2>>, <<3, 8>>, <<4, 0>>, <<4, 2>>, <<4, 4>>, <<4, 6>>,
     <<4, 7>>, <<5, 2>>, <<5, 7>>, <<5, 8>>, <<6, 0>>, <<6, 2>>, <<6, 5>>,
     <<7, 2>>, <<7, 4>>, <<7, 5>>, <<7, 6>>, <<7, 7>>, <<7, 8>>, <<8, 4>>,
     <<8, 5>>, <<8, 6>>, <<8, 8>>}

BlanksPointing ==
    {<<0, 0>>, <<0, 2>>, <<0, 5>>, <<0, 8>>, <<1, 0>>, <<1, 5>>, <<1, 6>>,
     <<1, 7>>, <<1, 8>>, <<2, 2>>, <<2, 5>>, <<2, 7>>, <<3, 6>>, <<3, 7>>,
     <<3, 8>>, <<4, 0>>, <<4, 2>>}

BlanksXWing ==
    {<<1, 0>>, <<1, 1>>, <<1, 2>>, <<1, 6>>, <<1, 8>>, <<2, 2>>, <<2, 8>>,
     <<3, 4>>, <<3, 7>>, <<3, 8>>, <<4, 1>>, <<4, 6>>, <<5, 0>>, <<5, 4>>,
     <<5, 8>>, <<6, 1>>, <<6, 6>>, <<7, 0>>, <<7, 2>>, <<7, 6>>, <<7, 7>>}

BlanksSwordfish ==
    {<<0, 2>>, <<0, 4>>, <<0, 7>>, <<0, 8>>, <<1, 2>>, <<1, 3>>, <<1, 6>>,
     <<1, 7>>, <<2, 4>>, <<2, 8>>, <<3, 6>>, <<3, 8>>, <<6, 4>>, <<6, 6>>,
     <<6, 8>>, <<7, 3>>, <<7, 4>>, <<7, 7>>}

BlanksXYWing ==
    {<<0, 2>>, <<0, 7>>, <<1, 0>>, <<1, 1>>, <<1, 7>>, <<2, 0>>, <<2, 7>>,
     <<4, 0>>, <<4, 2>>, <<5, 0>>, <<5, 1>>, <<6, 1>>, <<6, 2>>}

\* a puzzle with one solution on which, after the singles, no technique
\* has an effect
BlanksStuck ==
    {<<3, 1>>, <<3, 4>>, <<3, 5>>, <<4, 2>>, <<4, 3>>, <<4, 4>>, <<4, 5>>,
     <<6, 1>>, <<6, 3>>, <<6, 4>>, <<6, 5>>, <<6, 7>>, <<8, 2>>, <<8, 4>>,
     <<8, 5>>, <<8, 7>>, <<8, 8>>}

\* the cells emptied in Conflicting
BlanksConflict ==
    {<<3, 5>>, <<3, 8>>, <<4, 2>>, <<4, 5>>, <<4, 8>>, <<5, 1>>, <<6, 2>>}

\* a grid with no solution whose filled cells repeat no digit: the 3 of
\* row 5, column 2 is a 1; its first pass finds hidden singles of two
\* digits for one cell
Conflicting == [WithBlanks(BlanksConflict) EXCEPT ![5][2] = 1]

\* the cells emptied in a grid that singles solve and on whose candidate map
\* the findings of one call overlap: a cell of a naked pair lies in the unit
\* of another pair, a pointing pair's line crosses the box of another, a
\* swordfish's column crosses a row of another
BlanksOverlapping ==
    {<<1, 0>>, <<2, 0>>, <<2, 7>>, <<2, 8>>, <<3, 3>>, <<3, 7>>, <<4, 6>>,
     <<4, 7>>, <<5, 8>>, <<8, 7>>, <<8, 8>>}

\* malformed grids: the 5 of row 0, column 0 of the easy puzzle is a 3, so
\* row 0 and box 0 hold 3 twice, or a 10, which is no digit
Repeating == [WithBlanks(BlanksEasy) EXCEPT ![0][0] = 3]

OutOfRange == [WithBlanks(BlanksEasy) EXCEPT ![0][0] = 10]

\* the cells emptied in Doubled
BlanksDoubled == {<<2, 6>>, <<2, 7>>, <<5, 8>>}

\* a grid with no solution whose filled cells repeat no digit: the 5 of
\* row 5, column 7 is a 6, which leaves the two empty cells of row 2 with
\* the one candidate 5 each
Doubled == [WithBlanks(BlanksDoubled) EXCEPT ![5][7] = 6]

Puzzles ==
    << WithBlanks({}), WithBlanks(BlanksEasy), WithBlanks(BlanksStandard),
       WithBlanks(BlanksHidden), WithBlanks(BlanksNakedPair),
       WithBlanks(BlanksPointing), WithBlanks(BlanksXWing),
       WithBlanks(BlanksSwordfish), WithBlanks(BlanksXYWing),
       WithBlanks(BlanksStuck), Conflicting, WithBlanks(BlanksOverlapping),
       Repeating, OutOfRange, Doubled >>

\* the grids the caller rates more than once
Repeated == {1, 2, 4, 9, 10, 11}

SetOrders == {"ascending", "descending"}

\* the number of rate_puzzle calls of a caller that repeats the call
MaxCalls == 2

(***************************************************************************)
(* The state machine: the caller holds SudokuBoard(grid) as object 1 and   *)
(* calls rate_puzzle on it.                                                *)
(***************************************************************************)
Init ==
    /\ puzzle \in 1..Len(Puzzles)
    /\ set_order \in SetOrders
    /\ heap = (1 :> Puzzles[puzzle])
    /\ board = 0
    /\ working_board = 0
    /\ candidates = <<>>
    /\ techniques_used = <<>>
    /\ max_score = 0
    /\ iteration = 0
    /\ applied = FALSE
    /\ pc = "idle"
    /\ results = <<>>

\* lines 42-49: rate_puzzle(arg) on the objects of h; the working copy and
\* the locals of the call
Call(h, arg) ==
    /\ pc = "idle"
    /\ board' = arg
    /\ LET copy == deepcopy(h, arg)
       IN  /\ heap' = copy[1]
           /\ working_board' = copy[2]
    /\ techniques_used' = <<>>
    /\ max_score' = 0
    /\ iteration' = 0
    /\ applied' = FALSE
    /\ candidates' = <<>>
    /\ pc' = "while"
    /\ UNCHANGED <<puzzle, results, set_order>>

\* a caller rates its own board: engine.rate_puzzle(board), once
RatePuzzle ==
    /\ results = <<>>
    /\ Call(heap, 1)

\* lines 51-125: the loop condition holds and the body runs once, up to its
\* continue or its break
LoopBody ==
    /\ pc = "while"
    /\ LoopCondition(heap[working_board], iteration)
    /\ \E pass \in {LoopPass(heap[working_board], set_order)} :
           /\ iteration' = iteration + 1
           /\ heap' = [heap EXCEPT ![working_board] = pass.grid]
           /\ candidates' = pass.cand
           /\ techniques_used' = Append(techniques_used, pass.tag)
           /\ max_score' = Max(max_score, Score(pass.tag))
           /\ applied' = (pass.tag # "requires_expert_technique")
           /\ pc' = AfterPass(pass.tag)
    /\ UNCHANGED <<puzzle, board, working_board, results, set_order>>

\* line 51: the loop condition is false
LoopExit ==
    /\ pc = "while"
    /\ ~LoopCondition(heap[working_board], iteration)
    /\ pc' = "classify"
    /\ UNCHANGED <<puzzle, heap, board, working_board, candidates,
                   techniques_used, max_score, iteration, applied, results,
                   set_order>>

\* lines 128-135: the label and the return, which leaves the caller with
\* its own object only
Return ==
    /\ pc = "classify"
    /\ results' = Append(results,
                         <<Difficulty(max_score), max_score, techniques_used>>)
    /\ heap' = [ref \in {1} |-> heap[ref]]
    /\ board' = 0
    /\ working_board' = 0
    /\ pc' = "idle"
    /\ UNCHANGED <<puzzle, candidates, techniques_used, max_score, iteration,
                   applied, set_order>>

Next ==
    \/ RatePuzzle
    \/ LoopBody
    \/ LoopExit
    \/ Return

Spec == Init /\ [][Next]_vars

(***************************************************************************)
(* The caller of test_engine_consistency: it rates a fresh deep copy of    *)
(* its board, MaxCalls times.                                              *)
(***************************************************************************)
InitRepeat ==
    /\ Init
    /\ puzzle \in Repeated

\* engine.rate_puzzle(copy.deepcopy(board))
RateCopy ==
    /\ Len(results) < MaxCalls
    /\ LET fresh == deepcopy(heap, 1)
       IN  Call(fresh[1], fresh[2])

NextRepeat ==
    \/ RateCopy
    \/ LoopBody
    \/ LoopExit
    \/ Return

SpecRepeat == InitRepeat /\ [][NextRepeat]_vars

(***************************************************************************)
(* The caller of test_easy_puzzle_rating: it empties cells of a solved     *)
(* grid, one per row at most and MaxBlanks in all, and rates the grid.     *)
(***************************************************************************)
\* the grid of test_difficulty_classification, filled to the end
Shifted ==
    [row \in 0..8 |-> [col \in 0..8 |->
        ((row * 3 + (row \div 3) + col) % 9) + 1]]

\* the solved grids the caller starts from
Solutions == <<WithBlanks({}), Shifted>>

MaxBlanks == 2

\* the empty cells of grid
EmptyCells(grid) == {p \in (0..8) \X (0..8) : grid[p[1]][p[2]] = 0}

InitAlmost ==
    /\ puzzle \in 1..Len(Solutions)
    /\ set_order \in SetOrders
    /\ heap = (1 :> Solutions[puzzle])
    /\ board = 0
    /\ working_board = 0
    /\ candidates = <<>>
    /\ techniques_used = <<>>
    /\ max_score = 0
    /\ iteration = 0
    /\ applied = FALSE
    /\ pc = "idle"
    /\ results = <<>>

\* the 0 written in a row of the nested list that has none yet
Blank ==
    /\ pc = "idle"
    /\ results = <<>>
    /\ Cardinality(EmptyCells(heap[1])) < MaxBlanks
    /\ \E row \in 0..8, col \in 0..8 :
           /\ \A c \in 0..8 : heap[1][row][c] # 0
           /\ heap' = [heap EXCEPT ![1][row][col] = 0]
    /\ UNCHANGED <<puzzle, board, working_board, candidates, techniques_used,
                   max_score, iteration, applied, pc, results, set_order>>

\* engine.rate_puzzle(board) once a cell is empty
RateBlanked ==
    /\ ~_is_solved(heap[1])
    /\ RatePuzzle

NextAlmost ==
    \/ Blank
    \/ RateBlanked
    \/ LoopBody
    \/ LoopExit
    \/ Return

SpecAlmost == InitAlmost /\ [][NextAlmost]_vars

(***************************************************************************)
(* A caller of SudokuTechniques on its board, object 1: it builds tech,    *)
(* as line 53 does, and calls the detectors and appliers in any order; it  *)
(* assigns the singles found as lines 58-59 and 67-68 do, and keeps tech   *)
(* in step with update_candidates.                                         *)
(***************************************************************************)
\* update_candidates(row, col, num) on the dict cand
update_candidates(cand, row, col, num) ==
    LET box_row == (row \div 3) * 3
        box_col == (col \div 3) * 3
    IN  Table([p \in DOMAIN cand \ {<<row, col>>} |->
            IF \/ p[1] = row
               \/ p[2] = col
               \/ /\ box_row <= p[1] /\ p[1] < box_row + 3
                  /\ box_col <= p[2] /\ p[2] < box_col + 3
            THEN cand[p] \ {num}
            ELSE cand[p]])

\* for row, col, num in findings: tech.update_candidates(row, col, num)
RECURSIVE UpdateAll(_, _, _)
UpdateAll(cand, findings, i) ==
    IF i > Len(findings) THEN cand
    ELSE UpdateAll(update_candidates(cand, findings[i][1], findings[i][2],
                                     findings[i][3]),
                   findings, i + 1)

\* the caller goes on to method with the board's grid and tech.candidates
\* as given
Called(method, grid, cand) ==
    /\ pc' = method
    /\ heap' = [heap EXCEPT ![1] = grid]
    /\ candidates' = cand
    /\ UNCHANGED <<puzzle, board, working_board, techniques_used, max_score,
                   iteration, applied, results, set_order>>

\* tech = SudokuTechniques(board)
Build == Called("__init__", heap[1], _init_candidates(heap[1]))

AssignNakedSingles ==
    /\ pc # "idle"
    /\ \E singles \in {find_naked_singles(candidates)} :
           Called("find_naked_singles", AssignAll(heap[1], singles, 1),
                  UpdateAll(candidates, singles, 1))

AssignHiddenSingles ==
    /\ pc # "idle"
    /\ \E hidden \in {find_hidden_singles(heap[1], candidates, set_order)} :
           Called("find_hidden_singles", AssignAll(heap[1], hidden, 1),
                  UpdateAll(candidates, hidden, 1))

ApplyNakedPairs ==
    /\ pc # "idle"
    /\ Called("apply_naked_pairs", heap[1],
              apply_naked_pairs(candidates, find_naked_pairs(candidates))[1])

ApplyPointingPairs ==
    /\ pc # "idle"
    /\ Called("apply_pointing_pairs", heap[1],
              apply_pointing_pairs(candidates,
                                   find_pointing_pairs(candidates))[1])

ApplyXWing ==
    /\ pc # "idle"
    /\ Called("apply_x_wing", heap[1],
              apply_x_wing(candidates, find_x_wing(candidates))[1])

ApplySwordfish ==
    /\ pc # "idle"
    /\ Called("apply_swordfish", heap[1],
              apply_swordfish(candidates, find_swordfish(candidates))[1])

ApplyXYWing ==
    /\ pc # "idle"
    /\ Called("apply_xy_wing", heap[1],
              apply_xy_wing(candidates, find_xy_wing(candidates))[1])

NextTechniques ==
    \/ Build
    \/ AssignNakedSingles
    \/ AssignHiddenSingles
    \/ ApplyNakedPairs
    \/ ApplyPointingPairs
    \/ ApplyXWing
    \/ ApplySwordfish
    \/ ApplyXYWing

\* the grids whose boards the caller of SudokuTechniques works on
Analysed == {2, 6, 7, 8, 9, 10, 11, 12, 13, 14}

InitTechniques ==
    /\ Init
    /\ puzzle \in Analysed

SpecTechniques == InitTechniques /\ [][NextTechniques]_vars

(***************************************************************************)
(* A caller of the detectors: tech = SudokuTechniques(board), any calls of *)
(* the methods above, then calls of one detector, whose lists it keeps in  *)
(* results.  No detector assigns to self.grid or to self.candidates and    *)
(* none calls a method that does.                                          *)
(***************************************************************************)
\* the number of calls of the detector
MaxFinds == 2

\* the caller has called the detector method, which returned findings
Found(method, findings) ==
    /\ pc # "idle"
    /\ results = <<>> \/ pc = method
    /\ Len(results) < MaxFinds
    /\ pc' = method
    /\ results' = Append(results, findings)
    /\ UNCHANGED <<puzzle, heap, board, working_board, candidates,
                   techniques_used, max_score, iteration, applied, set_order>>

\* the bug of a detector that takes what it reports out of the dict:
\* self.candidates.pop((row, col))
FindNakedSinglesPopping ==
    /\ pc # "idle"
    /\ results = <<>> \/ pc = "find_naked_singles"
    /\ Len(results) < MaxFinds
    /\ pc' = "find_naked_singles"
    /\ \E singles \in {find_naked_singles(candidates)} :
           /\ results' = Append(results, singles)
           /\ candidates' =
                  Table([p \in DOMAIN candidates \
                             {<<f[1], f[2]>> : f \in Range(singles)} |->
                            candidates[p]])
    /\ UNCHANGED <<puzzle, heap, board, working_board, techniques_used,
                   max_score, iteration, applied, set_order>>

FindNakedSingles ==
    Found("find_naked_singles", find_naked_singles(candidates))

FindHiddenSingles ==
    Found("find_hidden_singles",
          find_hidden_singles(heap[1], candidates, set_order))

FindNakedPairs == Found("find_naked_pairs", find_naked_pairs(candidates))

FindPointingPairs ==
    Found("find_pointing_pairs", find_pointing_pairs(candidates))

FindXWing == Found("find_x_wing", find_x_wing(candidates))

FindSwordfish == Found("find_swordfish", find_swordfish(candidates))

FindXYWing == Found("find_xy_wing", find_xy_wing(candidates))

\* the calls before the first call of the detector
Prepare == results = <<>> /\ NextTechniques

NextDetectors ==
    \/ Prepare
    \/ FindNakedSingles
    \/ FindHiddenSingles
    \/ FindNakedPairs
    \/ FindPointingPairs
    \/ FindXWing
    \/ FindSwordfish
    \/ FindXYWing

SpecDetectors == InitTechniques /\ [][NextDetectors]_vars

(***************************************************************************)
(* A caller of _can_see: tech = SudokuTechniques(board) on the easy        *)
(* puzzle, tech._can_see(r1, c1, r2, c2) for two cells of the grid, then   *)
(* tech._can_see(r2, c2, r1, c1); results keeps the arguments and the      *)
(* value of each call.                                                     *)
(***************************************************************************)
InitCanSee ==
    /\ Init
    /\ puzzle = 2

CanSee ==
    /\ pc = "__init__"
    /\ pc' = "_can_see"
    /\ \E r1 \in 0..8 : \E c1 \in 0..8 : \E r2 \in 0..8 : \E c2 \in 0..8 :
           results' = <<<<r1, c1, r2, c2, _can_see(r1, c1, r2, c2)>>>>
    /\ UNCHANGED <<puzzle, heap, board, working_board, candidates,
                   techniques_used, max_score, iteration, applied, set_order>>

CanSeeBack ==
    /\ pc = "_can_see"
    /\ Len(results) = 1
    /\ pc' = "_can_see"
    /\ \E r1 \in {results[1][1]} : \E c1 \in {results[1][2]} :
           \E r2 \in {results[1][3]} : \E c2 \in {results[1][4]} :
               results' = Append(results,
                                 <<r2, c2, r1, c1, _can_see(r2, c2, r1, c1)>>)
    /\ UNCHANGED <<puzzle, heap, board, working_board, candidates,
                   techniques_used, max_score, iteration, applied, set_order>>

\* the caller builds tech once
BuildOnce == pc = "idle" /\ Build

NextCanSee == BuildOnce \/ CanSee \/ CanSeeBack

SpecCanSee == InitCanSee /\ [][NextCanSee]_vars

(***************************************************************************)
(* The terminal states of a call, read where the loop has been left.       *)
(***************************************************************************)
\* the loop was left with the working grid filled
Solved == pc = "classify" /\ _is_solved(heap[working_board])

\* the loop was left by the break of line 125
Stuck == pc = "classify" /\ ~_is_solved(heap[working_board]) /\ ~applied

\* the loop was left by its condition with the working grid still unsolved
IterationCapped ==
    pc = "classify" /\ ~_is_solved(heap[working_board]) /\ applied

(***************************************************************************)
(* The claims.                                                             *)
(***************************************************************************)
\* C1: rate_puzzle never mutates the caller's board: in every state, before,
\* during and after the call and whichever terminal state the call reaches,
\* the caller's object holds the input grid cell for cell.
CallerBoardUnchanged == heap[1] = Puzzles[puzzle]

\* a call has written to its working copy and has reached a terminal state
CopyWritten ==
    /\ Solved \/ Stuck \/ IterationCapped
    /\ techniques_used # <<>>
    /\ heap[working_board] # Puzzles[puzzle]
    /\ heap[board] = Puzzles[puzzle]


\* C2: rate_puzzle terminates: the loop body runs at most 1000 times and
\* techniques_used never holds more than 1000 tags; every step taken at the
\* loop head either runs the body once more, which counts one iteration, or
\* leaves the loop for good, and at 1000 iterations only the latter is left,
\* so every call reaches one of Solved, Stuck, IterationCapped.
Terminates ==
    /\ [](/\ iteration <= 1000
          /\ Len(techniques_used) <= 1000
          /\ pc = "classify" =>
                 \/ _is_solved(heap[working_board])
                 \/ techniques_used[iteration] = "requires_expert_technique"
                 \/ iteration = 1000)
    /\ [][pc = "while" =>
            \/ pc' = "while" /\ iteration' = iteration + 1
            \/ pc' = "classify" /\ iteration' <= iteration + 1]_vars
    /\ [][(pc = "while" /\ iteration >= 1000) => pc' = "classify"]_vars

\* a call has run the loop body 1000 times and has left the loop
CapReached ==
    pc = "classify" /\ iteration = 1000 /\ Len(techniques_used) = 1000

\* C3: whenever the call stops in IterationCapped, the cap reached with the
\* working grid unsolved, the result has max_score >= 200 and label 'Hard'.
CappedIsHard ==
    IterationCapped => (max_score >= 200 /\ Difficulty(max_score) = "Hard")

(***************************************************************************)
(* A solver that keeps its candidate map over the iterations: the same     *)
(* blocks in the same order, with update_candidates after the assignments. *)
(* It tells which puzzles the seven techniques solve.                      *)
(***************************************************************************)
Singles == {"naked_single", "hidden_single"}

Eliminations == {"naked_pair", "pointing_pair", "x_wing", "swordfish", "xy_wing"}

\* <<the grid was filled, the tags of the techniques used>>
RECURSIVE RetainingRun(_, _, _)
RetainingRun(grid, cand, tags) ==
    IF _is_solved(grid) THEN <<TRUE, tags>>
    ELSE LET pass == TryNakedSingles(grid, cand, "ascending")
         IN  IF pass.tag = "requires_expert_technique" THEN <<FALSE, tags>>
             ELSE RetainingRun(pass.grid, Retained(pass.cand, pass.grid),
                               tags \cup {pass.tag})

\* the seven techniques solve the grid, and not the singles alone
SolvableBySeven(grid) ==
    LET run == RetainingRun(grid, _init_candidates(grid), {})
    IN  run[1] /\ run[2] \cap Eliminations # {}

\* the highest weight among a collection of tags, 0 for none
MaxWeight(tags) ==
    LET weights == {Score(tag) : tag \in tags}
    IN  IF weights = {} THEN 0
        ELSE CHOOSE m \in weights : \A w \in weights : m >= w

\* C4: a puzzle that the seven techniques solve, an elimination needed on
\* the way, is driven by rate_puzzle to a filled working grid: the call ends
\* in Solved, without the tag 'requires_expert_technique', and its label is
\* the one of the highest-weight technique used.
SevenTechniquePuzzleSolved ==
    (pc = "classify" /\ SolvableBySeven(Puzzles[puzzle])) =>
        /\ Solved
        /\ "requires_expert_technique" \notin Range(techniques_used)
        /\ Difficulty(max_score) = Difficulty(MaxWeight(Range(techniques_used)))

\* C5: eliminations do not survive an iteration: a pass that applies an
\* elimination technique leaves the working grid, and so the candidate map
\* the next pass builds, as they were; every later pass appends the same tag
\* again, and such a call ends in IterationCapped only.
EliminationsAreLost ==
    /\ [][(pc = "while" /\ pc' = "while"
           /\ techniques_used'[Len(techniques_used')] \in Eliminations) =>
             /\ heap'[working_board'] = heap[working_board]
             /\ _init_candidates(heap'[working_board'])
                    = _init_candidates(heap[working_board])]_vars
    /\ [](\A i \in 1..Len(techniques_used) :
             techniques_used[i] \in Eliminations =>
                 techniques_used[Len(techniques_used)] = techniques_used[i])
    /\ []((pc = "classify" /\ Range(techniques_used) \cap Eliminations # {})
              => IterationCapped)

\* a call has applied an elimination technique in two passes running
EliminationRepeated ==
    /\ pc = "while"
    /\ Len(techniques_used) >= 2
    /\ techniques_used[Len(techniques_used)] \in Eliminations
    /\ techniques_used[Len(techniques_used) - 1] \in Eliminations
    /\ ~_is_solved(heap[working_board])

\* the techniques in the order of their blocks
Priority ==
    <<"naked_single", "hidden_single", "naked_pair", "pointing_pair",
      "x_wing", "swordfish", "xy_wing">>

\* the technique has an effect on the candidate map cand of grid: findings
\* for the two singles, an elimination count above 0 for the others
HasEffect(technique, grid, cand, order) ==
    CASE technique = "naked_single" -> find_naked_singles(cand) # <<>>
      [] technique = "hidden_single" ->
             find_hidden_singles(grid, cand, order) # <<>>
      [] technique = "naked_pair" ->
             apply_naked_pairs(cand, find_naked_pairs(cand))[2] > 0
      [] technique = "pointing_pair" ->
             apply_pointing_pairs(cand, find_pointing_pairs(cand))[2] > 0
      [] technique = "x_wing" -> apply_x_wing(cand, find_x_wing(cand))[2] > 0
      [] technique = "swordfish" ->
             apply_swordfish(cand, find_swordfish(cand))[2] > 0
      [] technique = "xy_wing" -> apply_xy_wing(cand, find_xy_wing(cand))[2] > 0

\* the tag is that of the first technique of Priority with an effect on the
\* fresh candidate map of grid
FirstWithEffect(tag, grid, order) ==
    \E cand \in {_init_candidates(grid)} :
        \E k \in 1..Len(Priority) :
            /\ tag = Priority[k]
            /\ HasEffect(Priority[k], grid, cand, order)
            /\ \A j \in 1..(k - 1) : ~HasEffect(Priority[j], grid, cand, order)

\* C6: fixed priority dispatch: every pass records exactly one tag; a tag of
\* the seven techniques is that of the first technique, in the order
\* naked_single, hidden_single, naked_pair, pointing_pair, x_wing, swordfish,
\* xy_wing, with an effect on the pass's fresh candidate map, every earlier
\* one having none; hidden_single is recorded only when find_naked_singles
\* returned nothing.
PriorityDispatch ==
    [][(pc = "while" /\ iteration' = iteration + 1) =>
          \E tag \in {techniques_used'[Len(techniques_used')]} :
              /\ techniques_used' = Append(techniques_used, tag)
              /\ tag # "requires_expert_technique" =>
                     FirstWithEffect(tag, heap[working_board], set_order)
              /\ tag = "hidden_single" =>
                     find_naked_singles(
                         _init_candidates(heap[working_board])) = <<>>]_vars

\* a pass has recorded the tag of the last technique of the order: the six
\* techniques before it had no effect on the pass's candidate map
XYWingDispatched ==
    /\ pc = "while"
    /\ iteration = 1
    /\ techniques_used = <<"xy_wing">>
    /\ ~_is_solved(heap[working_board])

\* no technique of the seven has an effect on the fresh candidate map
NoneHasEffect(grid, order) ==
    \E cand \in {_init_candidates(grid)} :
        \A k \in 1..Len(Priority) : ~HasEffect(Priority[k], grid, cand, order)

\* C7: Stuck: a pass on an unsolved grid on which none of the seven
\* techniques has an effect appends 'requires_expert_technique', raises
\* max_score to 200 at least and leaves the loop; so the tag occurs at most
\* once in techniques_used, as its last element, and a result that carries it
\* has label 'Hard'.
StuckStops ==
    /\ [][(/\ pc = "while"
           /\ LoopCondition(heap[working_board], iteration)
           /\ NoneHasEffect(heap[working_board], set_order)) =>
             /\ techniques_used'
                    = Append(techniques_used, "requires_expert_technique")
             /\ max_score' >= 200
             /\ iteration' = iteration + 1
             /\ pc' = "classify"]_vars
    /\ [](\A i \in 1..Len(techniques_used) :
             techniques_used[i] = "requires_expert_technique" =>
                 /\ i = Len(techniques_used)
                 /\ pc # "while"
                 /\ max_score >= 200)
    /\ [](\A k \in 1..Len(results) :
             "requires_expert_technique" \in Range(results[k][3]) =>
                 /\ results[k][1] = "Hard"
                 /\ results[k][2] >= 200)

\* a call on an unsolved grid has stopped in Stuck after passes of singles
StuckReached ==
    /\ Stuck
    /\ Len(techniques_used) >= 2
    /\ techniques_used[Len(techniques_used)] = "requires_expert_technique"
    /\ max_score = 200

\* C8: running maximum: at the loop head, after the loop and in the result,
\* max_score is the highest weight of the tags of techniques_used, with
\* 'requires_expert_technique' weighing 200, and 0 without tags; it takes its
\* values in {0, 15, 65, 80, 120, 160, 180, 200} and no pass decreases it.
RunningMaximum ==
    /\ [](pc # "idle" =>
             /\ max_score = MaxWeight(Range(techniques_used))
             /\ max_score \in {0, 15, 65, 80, 120, 160, 180, 200})
    /\ [](\A k \in 1..Len(results) :
             /\ results[k][2] = MaxWeight(Range(results[k][3]))
             /\ results[k][2] \in {0, 15, 65, 80, 120, 160, 180, 200})
    /\ [][pc = "while" => max_score' >= max_score]_vars

\* a call has raised max_score twice: singles first, a harder tag later
MaximumRaised ==
    /\ pc = "classify"
    /\ Len(techniques_used) >= 2
    /\ techniques_used[1] \in Singles
    /\ max_score > 15
    /\ max_score = Score(techniques_used[Len(techniques_used)])

\* the tags above the singles and below the Hard ones, and the Hard ones
MediumTags == {"naked_pair", "pointing_pair"}

HardTags == {"x_wing", "swordfish", "xy_wing", "requires_expert_technique"}

\* C9: label by hardest technique: the label of a result is 'Easy' iff
\* max_score <= 15, 'Medium' iff 15 < max_score <= 90, 'Hard' iff
\* max_score > 90; the weights increase strictly along naked_single and
\* hidden_single, naked_pair, pointing_pair, x_wing, swordfish, xy_wing,
\* requires_expert_technique, so the label is 'Easy' iff the tags are
\* singles only or none, 'Medium' iff the hardest tag is naked_pair or
\* pointing_pair, 'Hard' iff a tag is x_wing, swordfish, xy_wing or
\* requires_expert_technique.
LabelByHardest ==
    /\ Score("naked_single") = Score("hidden_single")
    /\ Score("hidden_single") < Score("naked_pair")
    /\ Score("naked_pair") < Score("pointing_pair")
    /\ Score("pointing_pair") < Score("x_wing")
    /\ Score("x_wing") < Score("swordfish")
    /\ Score("swordfish") < Score("xy_wing")
    /\ Score("xy_wing") < Score("requires_expert_technique")
    /\ \A k \in 1..Len(results) :
           LET difficulty == results[k][1]
               score == results[k][2]
               tags == Range(results[k][3])
           IN  /\ difficulty \in {"Easy", "Medium", "Hard"}
               /\ difficulty = "Easy" <=> score <= 15
               /\ difficulty = "Medium" <=> (15 < score /\ score <= 90)
               /\ difficulty = "Hard" <=> score > 90
               /\ difficulty = "Easy" <=> tags \subseteq Singles
               /\ difficulty = "Medium" <=>
                      (tags \cap MediumTags # {} /\ tags \cap HardTags = {})
               /\ difficulty = "Hard" <=> tags \cap HardTags # {}

\* a call has returned 'Easy' with the score on the threshold
EasyOnThreshold ==
    /\ results # <<>>
    /\ results[1][1] = "Easy"
    /\ results[1][2] = 15

ConflictingFindings(grid) ==
    LET hidden == find_hidden_singles(grid, _init_candidates(grid), "ascending")
    IN  \E i, j \in 1..Len(hidden) :
            /\ hidden[i][1] = hidden[j][1]
            /\ hidden[i][2] = hidden[j][2]
            /\ hidden[i][3] # hidden[j][3]

WellFormed(grid) ==
    /\ DOMAIN grid = 0..8
    /\ \A row \in 0..8 : DOMAIN grid[row] = 0..8
    /\ \A row, col \in 0..8 : grid[row][col] \in 0..9
    /\ \A unit_type \in {"row", "col", "box"} : \A unit_idx \in 0..8 :
           \A i, j \in 1..9 :
               LET unit == UnitCells(unit_type, unit_idx)
               IN  (i # j /\ grid[unit[i][1]][unit[i][2]] # 0) =>
                       grid[unit[i][1]][unit[i][2]]
                           # grid[unit[j][1]][unit[j][2]]

\* C11: malformed input is rejected: on a grid that repeats a digit in a
\* row, a column or a box, or holds a value outside 0-9, rate_puzzle fails
\* at once: it does not enter its loop and it returns no rating.
MalformedRejected ==
    ~WellFormed(Puzzles[puzzle]) => (pc = "idle" /\ results = <<>>)

\* C12: almost-solved puzzles are Easy: on a solved grid with one cell at
\* least emptied and one per row at most, rate_puzzle returns 'Easy', 15 and
\* tags that are naked_single or hidden_single only, and the working grid at
\* the end of the loop is the solved grid.
AlmostSolvedIsEasy ==
    /\ \A k \in 1..Len(results) :
           /\ results[k][1] = "Easy"
           /\ results[k][2] = 15
           /\ results[k][3] # <<>>
           /\ Range(results[k][3]) \subseteq Singles
    /\ pc = "classify" => heap[working_board] = Solutions[puzzle]

\* a call has returned on a grid with two cells of one column empty
AlmostSolvedRated ==
    /\ results # <<>>
    /\ \E p, q \in EmptyCells(heap[1]) : p[1] # q[1] /\ p[2] = q[2]

\* the tags rate_puzzle appends
Tags ==
    {"naked_single", "hidden_single", "naked_pair", "pointing_pair",
     "x_wing", "swordfish", "xy_wing", "requires_expert_technique"}

\* C13: the result is well formed: every tag of techniques_used is one of
\* naked_single, hidden_single, naked_pair, pointing_pair, x_wing, swordfish,
\* xy_wing, requires_expert_technique, never 'hidden_pair'; the list is
\* non-empty iff the input grid has an empty cell; a filled input returns
\* ('Easy', 0, []) and runs no iteration.
WellFormedResult ==
    /\ Range(techniques_used) \subseteq Tags
    /\ (pc # "idle" /\ EmptyCells(Puzzles[puzzle]) = {}) => iteration = 0
    /\ \A k \in 1..Len(results) :
           /\ Range(results[k][3]) \subseteq Tags
           /\ "hidden_pair" \notin Range(results[k][3])
           /\ results[k][3] # <<>> <=> EmptyCells(Puzzles[puzzle]) # {}
           /\ EmptyCells(Puzzles[puzzle]) = {} =>
                  results[k] = <<"Easy", 0, <<>> >>

\* a call on a filled grid has returned without a tag
FilledRated ==
    /\ results # <<>>
    /\ EmptyCells(Puzzles[puzzle]) = {}
    /\ results[1][3] = <<>>
    /\ iteration = 0

\* the cells p and q lie in one row, one column or one box
SameUnit(p, q) ==
    \/ p[1] = q[1]
    \/ p[2] = q[2]
    \/ p[1] \div 3 = q[1] \div 3 /\ p[2] \div 3 = q[2] \div 3

\* the digits placed in the row, the column and the box of cell p
PlacedAround(grid, p) ==
    {grid[q[1]][q[2]] : q \in {q \in (0..8) \X (0..8) : SameUnit(p, q)}}

\* C14: candidate map construction: right after SudokuTechniques is built
\* from a grid, candidates[(r, c)] is defined iff grid[r][c] = 0, and for an
\* empty cell it is 1..9 without the digits placed in the cell's row, column
\* and box.
CandidateMapBuilt ==
    pc = "__init__" =>
        \A p \in (0..8) \X (0..8) :
            /\ p \in DOMAIN candidates <=> heap[1][p[1]][p[2]] = 0
            /\ p \in DOMAIN candidates =>
                   \A d \in 1..9 :
                       d \in candidates[p] <=> d \notin PlacedAround(heap[1], p)
            /\ p \in DOMAIN candidates => candidates[p] \subseteq 1..9

\* tech has been built on a grid with an empty cell that lacks a digit for
\* the box alone: the digit is in no cell of the cell's row or column
BoxExcludes ==
    /\ pc = "__init__"
    /\ \E p \in DOMAIN candidates : \E d \in (1..9) \ candidates[p] :
           /\ \A c \in 0..8 : heap[1][p[1]][c] # d
           /\ \A r \in 0..8 : heap[1][r][p[2]] # d

\* the entries of a list are all different
NoDuplicates(list) == Cardinality(Range(list)) = Len(list)

\* C15: naked single detection is exact: find_naked_singles returns
\* (r, c, d) iff (r, c) is an empty cell whose candidate set is {d}; it
\* reports each such cell once, and no cell with no or with several
\* candidates.
NakedSinglesExact ==
    pc # "idle" =>
        LET singles == find_naked_singles(candidates)
        IN  /\ Range(singles) =
                   {<<x[1][1], x[1][2], x[2]>> :
                       x \in {y \in (DOMAIN candidates) \X (1..9) :
                                 candidates[y[1]] = {y[2]}}}
            /\ NoDuplicates(singles)
            /\ \A i \in 1..Len(singles) :
                   /\ heap[1][singles[i][1]][singles[i][2]] = 0
                   /\ Cardinality(candidates[<<singles[i][1], singles[i][2]>>]) = 1

\* tech holds two cells with one candidate, one with none left and one with
\* several
NakedSinglesAmongOthers ==
    /\ pc # "idle"
    /\ Len(find_naked_singles(candidates)) >= 2
    /\ \E p \in DOMAIN candidates : candidates[p] = {}
    /\ \E p \in DOMAIN candidates : Cardinality(candidates[p]) >= 2

\* in the unit, digit d is not placed and cell p is the only cell with d
\* as a candidate
HiddenIn(grid, cand, unit_type, unit_idx, p, d) ==
    LET unit == Range(UnitCells(unit_type, unit_idx))
    IN  /\ p \in unit
        /\ \A q \in unit : grid[q[1]][q[2]] # d
        /\ {q \in unit \cap DOMAIN cand : d \in cand[q]} = {p}

\* the units: 9 rows, 9 columns, 9 boxes
Units == {"row", "col", "box"} \X (0..8)

\* C16: hidden single detection is exact and free of duplicates:
\* find_hidden_singles returns (r, c, d) iff some row, column or box holds
\* (r, c), has d not placed and has (r, c) as its only cell with candidate d;
\* a (cell, digit) found through several units is in the result once.
HiddenSinglesExact ==
    pc # "idle" =>
        LET hidden == find_hidden_singles(heap[1], candidates, set_order)
        IN  /\ Range(hidden) =
                   {<<x[1][1], x[1][2], x[2]>> :
                       x \in {y \in (DOMAIN candidates) \X (1..9) :
                                 \E u \in Units :
                                     HiddenIn(heap[1], candidates, u[1], u[2],
                                              y[1], y[2])}}
            /\ NoDuplicates(hidden)

\* tech holds a hidden single of a row that is one of its column and of its
\* box too, in a cell with several candidates
HiddenThroughSeveral ==
    /\ pc # "idle"
    /\ \E p \in DOMAIN candidates : \E d \in candidates[p] :
           /\ Cardinality(candidates[p]) >= 2
           /\ HiddenIn(heap[1], candidates, "row", p[1], p, d)
           /\ HiddenIn(heap[1], candidates, "col", p[2], p, d)
           /\ HiddenIn(heap[1], candidates, "box",
                       (p[1] \div 3) * 3 + (p[2] \div 3), p, d)

\* the (cell, digit) that are in before and not in after
Removed(before, after) ==
    {x \in (DOMAIN before) \X (1..9) : x[2] \in before[x[1]] \ after[x[1]]}

\* the cells of the unit of a naked-pair finding, and the other keys of it
PairUnit(pair_info) == Range(UnitCells(pair_info[2], pair_info[3]))

PairOthers(cand, pair_info) ==
    (PairUnit(pair_info) \cap DOMAIN cand) \ Range(pair_info[4])

\* C17 as claimed: after apply_naked_pairs(find_naked_pairs()), for every
\* finding no other empty cell of its unit holds one of the two digits, no
\* (cell, digit) outside the units of the findings is removed, and the two
\* cells of every finding hold exactly their two pair digits.
NakedPairsKept ==
    [][(pc # "idle" /\ pc' = "apply_naked_pairs") =>
          LET pairs == find_naked_pairs(candidates)
          IN  /\ \A i \in 1..Len(pairs) :
                     /\ \A q \in PairOthers(candidates, pairs[i]) :
                            candidates'[q] \cap Range(pairs[i][5]) = {}
                     /\ \A c \in Range(pairs[i][4]) :
                            candidates'[c] = Range(pairs[i][5])
              /\ \A x \in Removed(candidates, candidates') :
                     \E i \in 1..Len(pairs) : x[1] \in PairUnit(pairs[i])]_vars

\* C17: naked pair elimination: after apply_naked_pairs(find_naked_pairs()),
\* for every finding no other empty cell of its unit holds one of the two
\* digits, and no (cell, digit) outside the units of the findings is removed;
\* a finding applied alone leaves its two cells with exactly their two pair
\* digits, and in the call a cell of a finding loses a pair digit only as
\* another cell of the unit of another finding with that digit.
NakedPairsEliminated ==
    [][(pc # "idle" /\ pc' = "apply_naked_pairs") =>
          LET pairs == find_naked_pairs(candidates)
          IN  /\ \A i \in 1..Len(pairs) :
                     /\ \A q \in PairOthers(candidates, pairs[i]) :
                            candidates'[q] \cap Range(pairs[i][5]) = {}
                     /\ \A c \in Range(pairs[i][4]) :
                            /\ candidates[c] = Range(pairs[i][5])
                            /\ apply_naked_pairs(candidates, <<pairs[i]>>)[1][c]
                                   = Range(pairs[i][5])
                            /\ candidates'[c] \subseteq Range(pairs[i][5])
                            /\ \A d \in candidates[c] \ candidates'[c] :
                                   \E j \in 1..Len(pairs) :
                                       /\ c \in PairOthers(candidates, pairs[j])
                                       /\ d \in Range(pairs[j][5])
              /\ \A x \in Removed(candidates, candidates') :
                     \E i \in 1..Len(pairs) :
                         /\ x[1] \in PairOthers(candidates, pairs[i])
                         /\ x[2] \in Range(pairs[i][5])
              /\ DOMAIN candidates' = DOMAIN candidates
              /\ \A p \in DOMAIN candidates : candidates'[p] \subseteq candidates[p]]_vars

\* apply_naked_pairs has run on the grid of overlapping findings: the pair
\* of column 7 has taken the 7 from cell (2, 7) of the pair of row 2
PairCellReduced ==
    /\ pc = "apply_naked_pairs"
    /\ puzzle = 12
    /\ heap[1] = Puzzles[12]
    /\ candidates[<<2, 7>>] = {6}
    /\ candidates[<<2, 8>>] = {6, 7}
    /\ candidates[<<4, 7>>] = {7, 9}
    /\ candidates[<<8, 7>>] = {7, 9}

\* the keys of box box_idx that hold num as a candidate
BoxPositions(cand, box_idx, num) ==
    {p \in Range(BoxCells(box_idx)) \cap DOMAIN cand : num \in cand[p]}

\* the (cell, digit) a pointing-pair finding is to remove: the digit in the
\* keys of its line that lie outside its box
PointingExpected(cand, pointing_info) ==
    LET line == Range(UnitCells(pointing_info[4], pointing_info[5]))
        box == Range(BoxCells(pointing_info[2]))
    IN  {x \in ((line \ box) \cap DOMAIN cand) \X {pointing_info[3]} :
            x[2] \in cand[x[1]]}

\* C18: pointing pairs: find_pointing_pairs reports (box, digit, line) iff
\* the digit has 2 candidate positions at least in the box and all of them
\* lie in that row, or in that column, and reports a (box, digit) once at
\* most; apply_pointing_pairs removes, for a finding, the digit from exactly
\* the keys of its line outside its box, from no cell inside the box and from
\* none off the line, and for a list of findings what its findings remove.
PointingPairsExact ==
    /\ [](pc # "idle" =>
            LET pointing == find_pointing_pairs(candidates)
            IN  /\ {<<f[2], f[3], f[4], f[5]>> : f \in Range(pointing)} =
                       {y \in (0..8) \X (1..9) \X {"row", "col"} \X (0..8) :
                           LET positions == BoxPositions(candidates, y[1], y[2])
                           IN  /\ Cardinality(positions) >= 2
                               /\ \A p \in positions :
                                      IF y[3] = "row" THEN p[1] = y[4]
                                      ELSE p[2] = y[4]}
                /\ NoDuplicates([i \in 1..Len(pointing) |->
                                    <<pointing[i][2], pointing[i][3]>>])
                /\ \A i \in 1..Len(pointing) :
                       Range(pointing[i][6])
                           = BoxPositions(candidates, pointing[i][2],
                                          pointing[i][3]))
    /\ [][(pc # "idle" /\ pc' = "apply_pointing_pairs") =>
            LET pointing == find_pointing_pairs(candidates)
            IN  /\ \A i \in 1..Len(pointing) :
                       Removed(candidates,
                               apply_pointing_pairs(candidates,
                                                    <<pointing[i]>>)[1])
                           = PointingExpected(candidates, pointing[i])
                /\ Removed(candidates, candidates') =
                       UNION {PointingExpected(candidates, pointing[i]) :
                                 i \in 1..Len(pointing)}
                /\ DOMAIN candidates' = DOMAIN candidates
                /\ \A p \in DOMAIN candidates :
                       candidates'[p] \subseteq candidates[p]]_vars

\* apply_pointing_pairs has run on the grid of overlapping findings: the 6
\* of box 2 in row 2 has taken the 6 from cell (2, 0), off the line of the 6
\* of box 0 in column 0 are no keys
PointingApplied ==
    /\ pc = "apply_pointing_pairs"
    /\ puzzle = 12
    /\ heap[1] = Puzzles[12]
    /\ candidates[<<2, 0>>] = {1}
    /\ candidates[<<1, 0>>] = {6}
    /\ candidates[<<2, 7>>] = {6, 7}

\* the cell of line l (a row of pattern "rows", a column of pattern "cols")
\* at position x
LineCell(pattern_type, l, x) ==
    IF pattern_type = "rows" THEN <<l, x>> ELSE <<x, l>>

\* the positions of line l where num is a candidate
PositionsIn(cand, pattern_type, l, num) ==
    {x \in 0..8 : /\ LineCell(pattern_type, l, x) \in DOMAIN cand
                  /\ num \in cand[LineCell(pattern_type, l, x)]}

\* the (cell, digit) a finding of lines and cross lines is to remove: the
\* digit in the keys of its cross lines that lie outside its lines
FishExpected(cand, pattern) ==
    {y \in (DOMAIN cand) \X {pattern[5]} :
        /\ \E l \in (0..8) \ Range(pattern[3]) : \E x \in Range(pattern[4]) :
               y[1] = LineCell(pattern[2], l, x)
        /\ y[2] \in cand[y[1]]}

\* C19: X-Wing: find_x_wing reports (rows r1 < r2, columns, digit) iff the
\* digit is a candidate in exactly the same two columns of both rows;
\* apply_x_wing removes, for a finding, the digit from the keys of these two
\* columns in the other rows and changes nothing else, and for a list of
\* findings what its findings remove; the corners of every finding keep the
\* digit.  The same for columns against rows.
XWingExact ==
    /\ [](pc # "idle" =>
            LET x_wings == find_x_wing(candidates)
            IN  /\ {<<f[2], f[3][1], f[3][2], f[5]>> : f \in Range(x_wings)} =
                       {y \in {"rows", "cols"} \X (0..8) \X (0..8) \X (1..9) :
                           /\ y[2] < y[3]
                           /\ Cardinality(PositionsIn(candidates, y[1], y[2],
                                                      y[4])) = 2
                           /\ PositionsIn(candidates, y[1], y[2], y[4])
                                  = PositionsIn(candidates, y[1], y[3], y[4])}
                /\ \A i \in 1..Len(x_wings) :
                       Range(x_wings[i][4])
                           = PositionsIn(candidates, x_wings[i][2],
                                         x_wings[i][3][1], x_wings[i][5]))
    /\ [][(pc # "idle" /\ pc' = "apply_x_wing") =>
            LET x_wings == find_x_wing(candidates)
            IN  /\ \A i \in 1..Len(x_wings) :
                       /\ Removed(candidates,
                                  apply_x_wing(candidates, <<x_wings[i]>>)[1])
                              = FishExpected(candidates, x_wings[i])
                       /\ \A l \in Range(x_wings[i][3]) :
                              \A x \in Range(x_wings[i][4]) :
                                  x_wings[i][5] \in
                                      candidates'[LineCell(x_wings[i][2], l, x)]
                /\ Removed(candidates, candidates') =
                       UNION {FishExpected(candidates, x_wings[i]) :
                                 i \in 1..Len(x_wings)}
                /\ DOMAIN candidates' = DOMAIN candidates
                /\ \A p \in DOMAIN candidates :
                       candidates'[p] \subseteq candidates[p]]_vars

\* apply_x_wing has run on the X-Wing puzzle: the 2 of rows 4 and 6 in
\* columns 1 and 6 has left cells (1, 1) and (7, 6), its corners hold it
XWingApplied ==
    /\ pc = "apply_x_wing"
    /\ puzzle = 7
    /\ heap[1] = Puzzles[7]
    /\ candidates[<<1, 1>>] = {6, 7}
    /\ candidates[<<7, 6>>] = {3, 6}
    /\ \A p \in {<<4, 1>>, <<4, 6>>, <<6, 1>>, <<6, 6>>} : 2 \in candidates[p]

\* C20: Swordfish: find_swordfish reports (rows r1 < r2 < r3, columns,
\* digit) iff the digit is a candidate in 2 or 3 columns of each of the rows
\* and in exactly 3 columns of the three together, the columns reported;
\* apply_swordfish removes, for a pattern, the digit from the keys of these
\* three columns in the rows outside the triple, leaves it in the three rows
\* and leaves every other digit, and for a list of patterns what its patterns
\* remove.  The same for columns against rows.
SwordfishExact ==
    /\ [](pc # "idle" =>
            LET swordfish == find_swordfish(candidates)
                size(y, l) ==
                    Cardinality(PositionsIn(candidates, y[1], l, y[5]))
                union(y) ==
                    UNION {PositionsIn(candidates, y[1], l, y[5]) :
                              l \in {y[2], y[3], y[4]}}
            IN  /\ {<<f[2], f[3][1], f[3][2], f[3][3], f[5]>> :
                           f \in Range(swordfish)} =
                       {y \in {"rows", "cols"} \X (0..8) \X (0..8) \X (0..8)
                                 \X (1..9) :
                           /\ y[2] < y[3]
                           /\ y[3] < y[4]
                           /\ \A l \in {y[2], y[3], y[4]} :
                                  size(y, l) \in {2, 3}
                           /\ Cardinality(union(y)) = 3}
                /\ \A i \in 1..Len(swordfish) :
                       swordfish[i][4] =
                           Sorted(union(<<swordfish[i][2], swordfish[i][3][1],
                                          swordfish[i][3][2], swordfish[i][3][3],
                                          swordfish[i][5]>>)))
    /\ [][(pc # "idle" /\ pc' = "apply_swordfish") =>
            LET swordfish == find_swordfish(candidates)
            IN  /\ \A i \in 1..Len(swordfish) :
                       Removed(candidates,
                               apply_swordfish(candidates,
                                               <<swordfish[i]>>)[1])
                           = FishExpected(candidates, swordfish[i])
                /\ Removed(candidates, candidates') =
                       UNION {FishExpected(candidates, swordfish[i]) :
                                 i \in 1..Len(swordfish)}
                /\ DOMAIN candidates' = DOMAIN candidates
                /\ \A p \in DOMAIN candidates :
                       candidates'[p] \subseteq candidates[p]]_vars

\* apply_swordfish has run on the Swordfish puzzle: the 4 of rows 2, 3 and 6
\* in columns 4, 6 and 8 has left cells (0, 4), (0, 8), (1, 6) and (7, 4),
\* the three rows hold it
SwordfishApplied ==
    /\ pc = "apply_swordfish"
    /\ puzzle = 8
    /\ heap[1] = Puzzles[8]
    /\ candidates[<<0, 4>>] = {1, 7}
    /\ candidates[<<0, 8>>] = {2, 7}
    /\ candidates[<<1, 6>>] = {2, 3}
    /\ candidates[<<7, 4>>] = {1, 3}
    /\ \A l \in {2, 3, 6} :
           /\ PositionsIn(candidates, "rows", l, 4) # {}
           /\ PositionsIn(candidates, "rows", l, 4) \subseteq {4, 6, 8}

\* the (cell, digit) an XY-Wing finding is to remove: Z in the keys, other
\* than its three cells, that share a unit with wing1 and with wing2
XYWingExpected(cand, pattern) ==
    {y \in (DOMAIN cand \ {pattern[2], pattern[3], pattern[4]})
               \X {pattern[5]} :
        /\ SameUnit(y[1], pattern[3])
        /\ SameUnit(y[1], pattern[4])
        /\ y[2] \in cand[y[1]]}

\* C21: XY-Wing: every finding of find_xy_wing is three distinct keys of two
\* candidates each, a pivot {X, Y}, a wing1 {X, Z} and a wing2 {Y, Z} with Z
\* neither X nor Y, each wing in a row, column or box of the pivot;
\* apply_xy_wing removes, for a finding, Z from exactly the keys other than
\* its three cells that share a unit with both wings and nothing else, and
\* for a list of findings what its findings remove.
XYWingExact ==
    /\ [](pc # "idle" =>
            \A f \in Range(find_xy_wing(candidates)) :
                LET pivot == f[2]
                    wing1 == f[3]
                    wing2 == f[4]
                    Z == f[5]
                IN  /\ {pivot, wing1, wing2} \subseteq DOMAIN candidates
                    /\ Cardinality({pivot, wing1, wing2}) = 3
                    /\ SameUnit(pivot, wing1)
                    /\ SameUnit(pivot, wing2)
                    /\ \E X \in 1..9 : \E Y \in 1..9 :
                           /\ Cardinality({X, Y, Z}) = 3
                           /\ candidates[pivot] = {X, Y}
                           /\ candidates[wing1] = {X, Z}
                           /\ candidates[wing2] = {Y, Z})
    /\ [][(pc # "idle" /\ pc' = "apply_xy_wing") =>
            LET xy_wing == find_xy_wing(candidates)
            IN  /\ \A i \in 1..Len(xy_wing) :
                       Removed(candidates,
                               apply_xy_wing(candidates, <<xy_wing[i]>>)[1])
                           = XYWingExpected(candidates, xy_wing[i])
                /\ Removed(candidates, candidates') =
                       UNION {XYWingExpected(candidates, xy_wing[i]) :
                                 i \in 1..Len(xy_wing)}
                /\ DOMAIN candidates' = DOMAIN candidates
                /\ \A p \in DOMAIN candidates :
                       candidates'[p] \subseteq candidates[p]]_vars

\* apply_xy_wing has run on the XY-Wing puzzle: pivot (2, 0) = {1, 6} with
\* wings (0, 2) = {1, 4} and (4, 0) = {4, 6} has taken the 4 from cell (1, 0)
XYWingApplied ==
    /\ pc = "apply_xy_wing"
    /\ puzzle = 9
    /\ heap[1] = Puzzles[9]
    /\ candidates[<<2, 0>>] = {1, 6}
    /\ candidates[<<0, 2>>] = {1, 4}
    /\ candidates[<<1, 0>>] = {6}

\* the sum of the sizes of the candidate sets
Size(cand) ==
    Cardinality({x \in (DOMAIN cand) \X (1..9) : x[2] \in cand[x[1]]})

\* the integer the applier of a technique returns on the findings of its
\* detector
Returned(technique, cand) ==
    CASE technique = "naked_pair" ->
             apply_naked_pairs(cand, find_naked_pairs(cand))[2]
      [] technique = "pointing_pair" ->
             apply_pointing_pairs(cand, find_pointing_pairs(cand))[2]
      [] technique = "x_wing" -> apply_x_wing(cand, find_x_wing(cand))[2]
      [] technique = "swordfish" ->
             apply_swordfish(cand, find_swordfish(cand))[2]
      [] technique = "xy_wing" -> apply_xy_wing(cand, find_xy_wing(cand))[2]

\* the technique of an applier
TechniqueOf ==
    [apply_naked_pairs |-> "naked_pair",
     apply_pointing_pairs |-> "pointing_pair", apply_x_wing |-> "x_wing",
     apply_swordfish |-> "swordfish", apply_xy_wing |-> "xy_wing"]

\* C22: elimination counts are exact: the integer apply_naked_pairs,
\* apply_pointing_pairs, apply_x_wing, apply_swordfish and apply_xy_wing
\* return is the decrease of the sum of the sizes of the candidate sets over
\* the call, so a (cell, digit) two findings visit counts once and a cell
\* without the digit counts nothing; and the pass of rate_puzzle on a grid
\* appends the tag of such a technique only when the count is above 0.
CountsExact ==
    /\ [][(pc # "idle" /\ pc' \in DOMAIN TechniqueOf) =>
            /\ Returned(TechniqueOf[pc'], candidates)
                   = Size(candidates) - Size(candidates')
            /\ Returned(TechniqueOf[pc'], candidates)
                   = Cardinality(Removed(candidates, candidates'))]_vars
    /\ [](pc # "idle" =>
            \E grid \in {heap[1]} :
                \E pass \in {LoopPass(grid, set_order)} :
                    pass.tag \in Eliminations =>
                        /\ Returned(pass.tag, _init_candidates(grid)) > 0
                        /\ Size(pass.cand) < Size(_init_candidates(grid)))

\* apply_swordfish has run on the Swordfish puzzle and returned 4: two of
\* the patterns visit the 4 of cell (0, 4), which counts once
CountedOnce ==
    /\ pc = "apply_swordfish"
    /\ puzzle = 8
    /\ heap[1] = Puzzles[8]
    /\ \E cand \in {_init_candidates(Puzzles[8])} :
           \E swordfish \in {find_swordfish(cand)} :
               /\ candidates = apply_swordfish(cand, swordfish)[1]
               /\ apply_swordfish(cand, swordfish)[2] = 4
               /\ Size(cand) - Size(candidates) = 4
               /\ \E i \in 1..Len(swordfish) : \E j \in 1..Len(swordfish) :
                      /\ i # j
                      /\ <<0, 4, 4>> \in
                             Range(SwordfishTargets(cand, swordfish[i]))
                      /\ <<0, 4, 4>> \in
                             Range(SwordfishTargets(cand, swordfish[j]))
    /\ LoopPass(heap[1], set_order).tag \in Eliminations

InOneUnit(p, q) ==
    \E unit \in Units : {p, q} \subseteq Range(UnitCells(unit[1], unit[2]))

\* C24: the adjacency relation: _can_see(r1, c1, r2, c2) is true iff the
\* cells (r1, c1) and (r2, c2) lie in one row, one column or one 3x3 box,
\* for every two cells of the grid, and _can_see(r2, c2, r1, c1) has the
\* same value.
CanSeeExact ==
    /\ \A i \in 1..Len(results) :
           results[i][5] = InOneUnit(<<results[i][1], results[i][2]>>,
                                     <<results[i][3], results[i][4]>>)
    /\ Len(results) = 2 => results[1][5] = results[2][5]

\* the cells (0, 0) and (1, 1), of box 0 and of no common row or column,
\* see each other both ways
CanSeeInBox ==
    /\ pc = "_can_see"
    /\ results = <<<<0, 0, 1, 1, TRUE>>, <<1, 1, 0, 0, TRUE>>>>

\* C25: the working grid keeps the uniqueness of the digits: for an input
\* whose filled cells are digits 1-9 that repeat in no row, column or box,
\* with a solution or without, the working grid repeats no digit in a row,
\* column or box after any iteration of rate_puzzle, which assigns all the
\* naked singles or all the hidden singles of its snapshot at once.
WorkingGridUnique ==
    (working_board # 0 /\ WellFormed(Puzzles[puzzle]))
        => WellFormed(heap[working_board])

\* the list the pass that appends tag assigns from: the naked singles or
\* the hidden singles of the fresh candidate map of grid
AssignedBy(tag, grid, order) ==
    IF tag = "naked_single" THEN find_naked_singles(_init_candidates(grid))
    ELSE find_hidden_singles(grid, _init_candidates(grid), order)

\* C26: givens are preserved and progress is monotone: in rate_puzzle no
\* write changes a cell of the working grid that is not 0, and none writes
\* 0; an iteration tagged naked_single or hidden_single writes digits 1-9
\* into cells empty at its start only and ends with fewer empty cells; an
\* iteration with another tag leaves the grid as it was.
GivensPreserved ==
    [][(pc = "while" /\ iteration' = iteration + 1) =>
          \E grid \in {heap[working_board]} :
              \E tag \in {techniques_used'[iteration']} :
                  IF tag \in Singles
                  THEN \E findings \in {AssignedBy(tag, grid, set_order)} :
                           /\ heap'[working_board]
                                  = AssignAll(grid, findings, 1)
                           /\ \A i \in 1..Len(findings) :
                                  \E row \in {findings[i][1]} :
                                      \E col \in {findings[i][2]} :
                                          /\ findings[i][3] \in 1..9
                                          /\ grid[row][col] = 0
                                          /\ AssignAll(grid,
                                                       SubSeq(findings, 1,
                                                              i - 1),
                                                       1)[row][col] = 0
                           /\ Cardinality(EmptyCells(heap'[working_board]))
                                  < Cardinality(EmptyCells(grid))
                           /\ \A row, col \in 0..8 :
                                  grid[row][col] # 0 =>
                                      heap'[working_board][row][col]
                                          = grid[row][col]
                  ELSE heap'[working_board] = grid]_vars

\* the result is 'Medium', or 'Hard' with a score below 200
BelowExpert(label, score) ==
    label = "Medium" \/ (label = "Hard" /\ score < 200)

\* C27: a run that ends Solved used singles only: when the loop is left with
\* the working grid filled after one iteration at least, techniques_used
\* holds naked_single and hidden_single only, max_score is 15 and the result
\* is ('Easy', 15, techniques_used); a result 'Medium', or 'Hard' with a
\* max_score below 200, is returned from IterationCapped only, with
\* techniques_used of length 1000.
SolvedBySingles ==
    /\ []((Solved /\ iteration >= 1) =>
              /\ Range(techniques_used) \subseteq Singles
              /\ max_score = 15
              /\ Difficulty(max_score) = "Easy")
    /\ []((pc = "classify" /\ BelowExpert(Difficulty(max_score), max_score)) =>
              /\ IterationCapped
              /\ iteration = 1000
              /\ Len(techniques_used) = 1000)
    /\ [][(pc = "classify" /\ pc' # "classify") =>
              /\ Len(results') = Len(results) + 1
              /\ \E r \in {results'[Len(results')]} :
                     /\ r[3] = techniques_used
                     /\ (Solved /\ iteration >= 1) =>
                            (r[1] = "Easy" /\ r[2] = 15)
                     /\ BelowExpert(r[1], r[2]) =>
                            (IterationCapped /\ Len(r[3]) = 1000)]_vars

\* a call has left the loop with the working grid filled, after passes of
\* naked singles and of hidden singles
SolvedAfterSingles ==
    /\ Solved
    /\ iteration >= 2
    /\ {"naked_single", "hidden_single"} \subseteq Range(techniques_used)
    /\ max_score = 15

====
